---- MODULE Spec2Model ----
(***************************************************************************)
(* The ticketing NFT contract of nft/src/lib.rs as a state machine.        *)
(*                                                                         *)
(* The contract struct (lib.rs 43-50) is the state; every public method is *)
(* one action.  A method that panics aborts the call and the NEAR runtime  *)
(* discards the writes the call made, so a failing call commits nothing.   *)
(* The methods generated by impl_non_fungible_token_core! and              *)
(* impl_non_fungible_token_approval! (lib.rs 289-290) and the calls into   *)
(* NonFungibleToken (internal_mint, internal_transfer, nft_token) follow   *)
(* the near-contract-standards implementation those lines expand to.       *)
(*                                                                         *)
(* Option<T> is a set with at most one element: {} is None, {v} is Some(v).*)
(* A HashMap / LookupMap is a function on the set of its keys.             *)
(* TLC integers are 32 bit: u32 and u128 are modelled U32Bits and U128Bits *)
(* wide, wide enough for every basis-point value and narrow enough that    *)
(* every intermediate value stays representable while the overflow points *)
(* of the source stay reachable.                                           *)
(***************************************************************************)
EXTENDS Integers, Sequences, FiniteSets, TLC

VARIABLES
    token_metadata,        \* Contract.token_metadata (only `copies` is read)
    minting_price,         \* Contract.minting_price
    perpetual_royalties,   \* Contract.perpetual_royalties : Option<HashMap<AccountId,u32>>
    overflow_checks,       \* build profile: TRUE = arithmetic overflow panics, FALSE = wraps
    minted_tokens,         \* Contract.minted_tokens
    tokens,                \* Contract.tokens : NonFungibleToken
    last,                  \* the last call: its arguments and its outcome
    mint_log               \* token ids returned by the successful nft_buy calls, in order

vars == <<token_metadata, minting_price, perpetual_royalties, overflow_checks,
          minted_tokens, tokens, last, mint_log>>

(***************************************************************************)
(* Bounds of the model.                                                    *)
(***************************************************************************)
MaxCopies == 2          \* largest supply cap drawn at initialization
MaxApprovals == 1       \* approvals issued per token before nft_approve is cut off
MaxDeposit == 1         \* attached deposits are 0..MaxDeposit
U32Bits == 14           \* modelled width of u32
U128Bits == 29          \* modelled width of u128
MintCopies == 11        \* supply cap of the long minting run

RECURSIVE Pow2(_)
Pow2(n) == IF n = 0 THEN 1 ELSE 2 * Pow2(n - 1)
U32Mod == Pow2(U32Bits)
U128Mod == Pow2(U128Bits)
U128Max == U128Mod - 1

(***************************************************************************)
(* Maps and options.                                                       *)
(***************************************************************************)
EmptyMap == <<>>
Put(m, k, v) == [x \in (DOMAIN m) \cup {k} |-> IF x = k THEN v ELSE m[x]]
Remove(m, k) == [x \in (DOMAIN m) \ {k} |-> m[x]]
Get(m, k) == IF k \in DOMAIN m THEN {m[k]} ELSE {}
Unwrap(o) == CHOOSE v \in o : TRUE
None == {}
Some(v) == {v}

(***************************************************************************)
(* u64::to_string: the decimal digits, most significant first.             *)
(***************************************************************************)
Digits == <<"0", "1", "2", "3", "4", "5", "6", "7", "8", "9">>

RECURSIVE U64ToString(_)
U64ToString(n) ==
    IF n < 10 THEN <<Digits[n + 1]>>
    ELSE Append(U64ToString(n \div 10), Digits[(n % 10) + 1])

\* json!({"attributes": [{"trait_type": "redeemed", "value": ...}]}).to_string()
REDEEMED_FALSE == "{\"attributes\":[{\"trait_type\":\"redeemed\",\"value\":\"false\"}]}"
REDEEMED_TRUE == "{\"attributes\":[{\"trait_type\":\"redeemed\",\"value\":\"true\"}]}"

(***************************************************************************)
(* The mutable part of the contract, and the outcome of a call.            *)
(***************************************************************************)
Self == [minted_tokens |-> minted_tokens, tokens |-> tokens]

\* self: the contract as the call left it; token, payout, approval, prev: what
\* the call returns (prev: internal_transfer's previous owner and approvals)
Ok(self) == [ok |-> TRUE, err |-> "", self |-> self, token |-> None,
             payout |-> None, approval |-> None, prev |-> None]
Panic(self, err) == [ok |-> FALSE, err |-> err, self |-> self, token |-> None,
                     payout |-> None, approval |-> None, prev |-> None]

\* Token as returned by NonFungibleToken::nft_token / internal_mint
Token(token_id, owner_id, extra, approved_account_ids) ==
    [token_id |-> token_id, owner_id |-> owner_id, extra |-> extra,
     approved_account_ids |-> approved_account_ids]

\* NonFungibleToken::nft_token: None for an id that owner_by_id does not hold
nft_token(nft, token_id) ==
    IF token_id \notin DOMAIN nft.owner_by_id THEN None
    ELSE Some(Token(token_id, nft.owner_by_id[token_id],
                    Get(nft.token_metadata_by_id, token_id),
                    IF token_id \in DOMAIN nft.approvals_by_id
                    THEN nft.approvals_by_id[token_id] ELSE EmptyMap))

\* NonFungibleToken::internal_mint: the id must be new; the attached deposit
\* must cover the storage the token takes (the rest is refunded).
internal_mint(self, token_id, token_owner_id, extra, deposit, storage_cost) ==
    IF token_id \in DOMAIN self.tokens.owner_by_id
    THEN Panic(self, "TokenIdNotUnique")
    ELSE LET nft == [self.tokens EXCEPT
                        !.owner_by_id = Put(@, token_id, token_owner_id),
                        !.token_metadata_by_id = Put(@, token_id, extra)]
             after == [self EXCEPT !.tokens = nft]
         IN  IF deposit < storage_cost
             THEN Panic(after, "StorageDeposit")
             ELSE [Ok(after) EXCEPT
                     !.token = Some(Token(token_id, token_owner_id, Some(extra), EmptyMap))]

\* nft_buy, the supply check: self.minted_tokens < self.token_metadata.copies.unwrap()
tokens_left_mutant(self) == self.minted_tokens <= Unwrap(token_metadata.copies)
has_tokens_left(self) == self.minted_tokens < Unwrap(token_metadata.copies)

\* nft_buy, the id of the token to mint: self.minted_tokens + 1
next_token_id_mutant(self) == self.minted_tokens
next_token_id(self) == self.minted_tokens + 1

\* nft_buy, the payment check: attached_deposit >= self.minting_price
payment_covers_mutant(attached_deposit) == TRUE
payment_covers(attached_deposit) == attached_deposit >= minting_price

\* nft_buy, the owner of the new token: the receiver given, else the caller
receiver_or_caller_mutant(receiver_id, caller_id) ==
    IF receiver_id # None THEN Unwrap(receiver_id) ELSE ""
receiver_or_caller(receiver_id, caller_id) ==
    IF receiver_id # None THEN Unwrap(receiver_id) ELSE caller_id

\* nft_buy, the counter: self.minted_tokens += 1, ahead of internal_mint
count_mint_mutant(self) == self
count_mint(self) == [self EXCEPT !.minted_tokens = @ + 1]

\* nft_buy, the extra of the new token: the redeemed:false string
minted_extra_mutant == REDEEMED_TRUE
minted_extra == REDEEMED_FALSE

\* Contract::nft_buy.  The payment is checked first, the supply second; a
\* contract whose template has no `copies` panics on the unwrap.
nft_buy(self, caller_id, receiver_id, attached_deposit, storage_cost) ==
    LET receiver_id_final == receiver_or_caller(receiver_id, caller_id)
    IN  IF ~payment_covers(attached_deposit)
        THEN Panic(self, "InsufficientPayment")
        ELSE IF token_metadata.copies = None
        THEN Panic(self, "CopiesUnset")
        ELSE IF ~has_tokens_left(self)
        THEN Panic(self, "SoldOut")
        ELSE LET token_id == next_token_id(self)
                 counted == count_mint(self)
             IN  internal_mint(counted, U64ToString(token_id), receiver_id_final,
                               minted_extra, attached_deposit, storage_cost)

\* near_sdk::assert_one_yocto / assert_at_least_one_yocto
one_yocto(attached_deposit) == attached_deposit = 1
at_least_one_yocto(attached_deposit) == attached_deposit >= 1

\* redeem_nft, the tag check: extra is the redeemed:false string
is_unredeemed_mutant(token) == token.extra # None
is_unredeemed(token) == token.extra = Some(REDEEMED_FALSE)

\* redeem_nft, the owner check: assert_eq!(token.owner_id, caller_id, ...)
owned_by_mutant(token, caller_id) ==
    caller_id = token.owner_id \/ caller_id \in DOMAIN token.approved_account_ids
owned_by(token, caller_id) == token.owner_id = caller_id

\* Contract::redeem_nft
redeem_nft(self, caller_id, token_id, attached_deposit) ==
    IF ~one_yocto(attached_deposit)
    THEN Panic(self, "RequiresOneYocto")
    ELSE IF nft_token(self.tokens, token_id) = None
    THEN Panic(self, "TokenNotFound")
    ELSE LET token == Unwrap(nft_token(self.tokens, token_id))
         IN  IF ~owned_by(token, caller_id)
             THEN Panic(self, "NotOwner")
             ELSE IF ~is_unredeemed(token)
             THEN Panic(self, "AlreadyRedeemed")
             ELSE LET redeemed == [token EXCEPT !.extra = Some(REDEEMED_TRUE)]
                      after == [self EXCEPT !.tokens.token_metadata_by_id =
                                               Put(@, token_id, REDEEMED_TRUE)]
                  IN  [Ok(after) EXCEPT !.token = Some(redeemed)]

\* internal_transfer: the approvals of the token leave approvals_by_id
clear_approvals_mutant(self, token_id) == self
clear_approvals(self, token_id) ==
    [self EXCEPT !.tokens.approvals_by_id = Remove(@, token_id)]

\* internal_transfer: a sender who is not the owner must be an approved
\* account and, when an approval id is given, hold exactly that id
sender_approved_mutant(approved_account_ids, sender_id, approval_id) ==
    /\ approved_account_ids # None
    /\ sender_id \in DOMAIN Unwrap(approved_account_ids)
sender_approved(approved_account_ids, sender_id, approval_id) ==
    /\ approved_account_ids # None
    /\ sender_id \in DOMAIN Unwrap(approved_account_ids)
    /\ \/ approval_id = None
       \/ Some(Unwrap(approved_account_ids)[sender_id]) = approval_id

\* internal_transfer: a sender who is the owner needs no approval
sender_is_owner_mutant(owner_id, sender_id) == FALSE
sender_is_owner(owner_id, sender_id) == sender_id = owner_id

\* internal_transfer: the receiver must not be the owner the token has
next_owner_differs_mutant(owner_id, sender_id, receiver_id) == sender_id # receiver_id
next_owner_differs(owner_id, sender_id, receiver_id) == owner_id # receiver_id

\* internal_transfer: the receiver becomes the owner of the token
with_owner_mutant(self, token_id, receiver_id) ==
    [self EXCEPT !.tokens.owner_by_id = Put(@, token_id, receiver_id),
                 !.tokens.token_metadata_by_id = Put(@, token_id, REDEEMED_FALSE)]
with_owner(self, token_id, receiver_id) ==
    [self EXCEPT !.tokens.owner_by_id = Put(@, token_id, receiver_id)]

\* NonFungibleToken::internal_transfer.  The approvals of the token are
\* taken out of approvals_by_id first; the checks follow; a panic leaves the
\* write to the runtime to discard.  owner_id and approved_account_ids are
\* what the call returns.
internal_transfer(self, sender_id, receiver_id, token_id, approval_id) ==
    IF token_id \notin DOMAIN self.tokens.owner_by_id
    THEN Panic(self, "TokenNotFound")
    ELSE LET owner_id == self.tokens.owner_by_id[token_id]
             approved_account_ids == Get(self.tokens.approvals_by_id, token_id)
             cleared == clear_approvals(self, token_id)
             authorized ==
                \/ sender_is_owner(owner_id, sender_id)
                \/ sender_approved(approved_account_ids, sender_id, approval_id)
         IN  IF ~authorized
             THEN Panic(cleared, "NotOwnerOrApproved")
             ELSE IF ~next_owner_differs(owner_id, sender_id, receiver_id)
             THEN Panic(cleared, "SameOwner")
             ELSE [Ok(with_owner(cleared, token_id, receiver_id))
                     EXCEPT !.prev = Some([owner_id |-> owner_id,
                                           approved_account_ids |-> approved_account_ids])]

\* impl_non_fungible_token_core!: nft_transfer
nft_transfer(self, sender_id, receiver_id, token_id, approval_id, attached_deposit) ==
    IF ~one_yocto(attached_deposit)
    THEN Panic(self, "RequiresOneYocto")
    ELSE internal_transfer(self, sender_id, receiver_id, token_id, approval_id)

\* nft_approve, the id of the new approval: the token's counter, 1 at first
next_approval_id_mutant(nft, token_id) == 1
next_approval_id(nft, token_id) ==
    IF token_id \in DOMAIN nft.next_approval_id_by_id
    THEN nft.next_approval_id_by_id[token_id] ELSE 1

\* impl_non_fungible_token_approval!: nft_approve (without msg)
nft_approve(self, predecessor, token_id, account_id, attached_deposit, storage_cost) ==
    IF ~at_least_one_yocto(attached_deposit)
    THEN Panic(self, "RequiresOneYocto")
    ELSE IF token_id \notin DOMAIN self.tokens.owner_by_id
    THEN Panic(self, "TokenNotFound")
    ELSE IF predecessor # self.tokens.owner_by_id[token_id]
    THEN Panic(self, "NotOwner")
    ELSE LET approved_account_ids ==
                 IF token_id \in DOMAIN self.tokens.approvals_by_id
                 THEN self.tokens.approvals_by_id[token_id] ELSE EmptyMap
             approval_id == next_approval_id(self.tokens, token_id)
             old_approval_id == Get(approved_account_ids, account_id)
             after == [self EXCEPT
                         !.tokens.approvals_by_id =
                             Put(@, token_id, Put(approved_account_ids, account_id, approval_id)),
                         !.tokens.next_approval_id_by_id = Put(@, token_id, approval_id + 1)]
             storage_used == IF old_approval_id = None THEN storage_cost ELSE 0
         IN  IF attached_deposit < storage_used
             THEN Panic(after, "StorageDeposit")
             ELSE [Ok(after) EXCEPT !.approval = Some(approval_id)]

\* nft_revoke: the approvals of the token without the entry of account_id
without_account_mutant(approved_account_ids, account_id) == EmptyMap
without_account(approved_account_ids, account_id) == Remove(approved_account_ids, account_id)

\* impl_non_fungible_token_approval!: nft_revoke
nft_revoke(self, predecessor, token_id, account_id, attached_deposit) ==
    IF ~one_yocto(attached_deposit)
    THEN Panic(self, "RequiresOneYocto")
    ELSE IF token_id \notin DOMAIN self.tokens.owner_by_id
    THEN Panic(self, "TokenNotFound")
    ELSE IF predecessor # self.tokens.owner_by_id[token_id]
    THEN Panic(self, "NotOwner")
    ELSE IF token_id \notin DOMAIN self.tokens.approvals_by_id
    THEN Ok(self)
    ELSE LET approved_account_ids == self.tokens.approvals_by_id[token_id]
             remaining == without_account(approved_account_ids, account_id)
         IN  IF account_id \notin DOMAIN approved_account_ids
             THEN Ok(self)
             ELSE IF DOMAIN remaining = {}
             THEN Ok([self EXCEPT !.tokens.approvals_by_id = Remove(@, token_id)])
             ELSE Ok([self EXCEPT !.tokens.approvals_by_id = Put(@, token_id, remaining)])

\* impl_non_fungible_token_approval!: nft_revoke_all
nft_revoke_all(self, predecessor, token_id, attached_deposit) ==
    IF ~one_yocto(attached_deposit)
    THEN Panic(self, "RequiresOneYocto")
    ELSE IF token_id \notin DOMAIN self.tokens.owner_by_id
    THEN Panic(self, "TokenNotFound")
    ELSE IF predecessor # self.tokens.owner_by_id[token_id]
    THEN Panic(self, "NotOwner")
    ELSE Ok([self EXCEPT !.tokens.approvals_by_id = Remove(@, token_id)])

\* impl_non_fungible_token_approval!: nft_is_approved, for a token that exists
\* (the call panics for one that does not)
nft_is_approved(nft, token_id, approved_account_id, approval_id) ==
    /\ token_id \in DOMAIN nft.approvals_by_id
    /\ approved_account_id \in DOMAIN nft.approvals_by_id[token_id]
    /\ \/ approval_id = None
       \/ approval_id = Some(nft.approvals_by_id[token_id][approved_account_id])

(***************************************************************************)
(* Royalties.  An arithmetic result is [v, overflow]: v is the value a     *)
(* wrapping build computes, overflow says that a checking build panics.    *)
(***************************************************************************)
BASIS_POINTS == 10000

RECURSIVE SumOver(_, _)
SumOver(m, keys) ==
    IF keys = {} THEN 0
    ELSE LET k == CHOOSE x \in keys : TRUE
         IN  m[k] + SumOver(m, keys \ {k})

\* a * b modulo m, by doubling: no intermediate value reaches 2 * m
RECURSIVE MulMod(_, _, _)
MulMod(a, b, m) ==
    IF b = 0 THEN 0
    ELSE LET rest == MulMod((2 * a) % m, b \div 2, m)
         IN  IF b % 2 = 1 THEN ((a % m) + rest) % m ELSE rest

\* royalty_to_payout: royalty_percentage as u128 * amount_to_pay / 10_000u128
royalty_to_payout(royalty_percentage, amount_to_pay) ==
    [v |-> MulMod(amount_to_pay, royalty_percentage, U128Mod) \div BASIS_POINTS,
     overflow |-> /\ royalty_percentage > 0
                  /\ amount_to_pay > U128Max \div royalty_percentage]

\* total_perpetual after the loop `total_perpetual += *v` over the entries
\* whose key is not the owner (u32)
total_perpetual_of(royalties, owner_id) ==
    LET total == SumOver(royalties, (DOMAIN royalties) \ {owner_id})
    IN  [v |-> total % U32Mod, overflow |-> total >= U32Mod]

\* 10000 - total_perpetual (u32)
owner_royalty(total_perpetual) ==
    [v |-> (BASIS_POINTS - total_perpetual) % U32Mod,
     overflow |-> total_perpetual > BASIS_POINTS]

\* Contract::nft_payout
nft_payout(self, token_id, balance, max_len_payout) ==
    IF nft_token(self.tokens, token_id) = None
    THEN Panic(self, "TokenNotFound")
    ELSE LET owner_id == Unwrap(nft_token(self.tokens, token_id)).owner_id
             royalties == IF perpetual_royalties = None THEN EmptyMap
                          ELSE Unwrap(perpetual_royalties)
             paid == (DOMAIN royalties) \ {owner_id}
             total_perpetual == total_perpetual_of(royalties, owner_id)
             rest == owner_royalty(total_perpetual.v)
             overflow ==
                \/ \E k \in paid : royalty_to_payout(royalties[k], balance).overflow
                \/ total_perpetual.overflow
                \/ rest.overflow
                \/ royalty_to_payout(rest.v, balance).overflow
             payout == [k \in paid \cup {owner_id} |->
                           IF k = owner_id THEN royalty_to_payout(rest.v, balance).v
                           ELSE royalty_to_payout(royalties[k], balance).v]
         IN  IF perpetual_royalties # None
                /\ ~(Cardinality(DOMAIN royalties) <= max_len_payout)
             THEN Panic(self, "TooManyBeneficiaries")
             ELSE IF overflow_checks /\ overflow
             THEN Panic(self, "ArithmeticOverflow")
             ELSE [Ok(self) EXCEPT !.payout = Some(payout)]

\* nft_transfer_payout, the owner the payout is computed for: the owner_id
\* that internal_transfer returns, the owner before the transfer
payout_owner_mutant(transfer, receiver_id) == receiver_id
payout_owner(transfer, receiver_id) == Unwrap(transfer.prev).owner_id

\* Contract::nft_transfer_payout
nft_transfer_payout(self, sender_id, receiver_id, token_id, approval_id, balance, max_len_payout, attached_deposit) ==
    IF ~one_yocto(attached_deposit)
    THEN Panic(self, "RequiresOneYocto")
    ELSE LET transfer == internal_transfer(self, sender_id, receiver_id, token_id,
                                           Some(approval_id))
         IN  IF ~transfer.ok
             THEN transfer
             ELSE LET owner_id == payout_owner(transfer, receiver_id)
                      royalties == IF perpetual_royalties = None THEN EmptyMap
                                   ELSE Unwrap(perpetual_royalties)
                      paid == (DOMAIN royalties) \ {owner_id}
                      total_perpetual == total_perpetual_of(royalties, owner_id)
                      rest == owner_royalty(total_perpetual.v)
                      overflow ==
                         \/ \E k \in paid : royalty_to_payout(royalties[k], balance).overflow
                         \/ total_perpetual.overflow
                         \/ rest.overflow
                         \/ royalty_to_payout(rest.v, balance).overflow
                      payout == [k \in paid \cup {owner_id} |->
                                    IF k = owner_id THEN royalty_to_payout(rest.v, balance).v
                                    ELSE royalty_to_payout(royalties[k], balance).v]
                  IN  IF perpetual_royalties # None
                         /\ ~(Cardinality(DOMAIN royalties) <= max_len_payout)
                      THEN Panic(transfer.self, "TooManyBeneficiaries")
                      ELSE IF overflow_checks /\ overflow
                      THEN Panic(transfer.self, "ArithmeticOverflow")
                      ELSE [transfer EXCEPT !.payout = Some(payout)]

(***************************************************************************)
(* The runtime: a call that panics commits none of its writes.             *)
(***************************************************************************)
Committed_mutant(r) == r.self
Committed(r) == IF r.ok THEN r.self ELSE Self

\* last: the method called and its outcome; the arguments are kept for a call
\* that committed (a call that panicked leaves its method and its error)
Call(op) ==
    [op |-> op, predecessor |-> None, deposit |-> None,
     receiver_id |-> None, token_id |-> None, account_id |-> None,
     approval_id |-> None, balance |-> None, max_len_payout |-> None]

Outcome(call, r) ==
    [call |-> IF r.ok THEN call ELSE Call(call.op), ok |-> r.ok, err |-> r.err,
     token |-> r.token, payout |-> r.payout, approval |-> r.approval, prev |-> r.prev]

Finish(call, r) ==
    /\ minted_tokens' = Committed(r).minted_tokens
    /\ tokens' = Committed(r).tokens
    /\ last' = Outcome(call, r)
    /\ UNCHANGED <<token_metadata, minting_price, perpetual_royalties, overflow_checks>>

(***************************************************************************)
(* Contract::new: no token, no mint, the configuration as given.           *)
(***************************************************************************)
NewTokens == [owner_by_id |-> EmptyMap, token_metadata_by_id |-> EmptyMap,
              approvals_by_id |-> EmptyMap, next_approval_id_by_id |-> EmptyMap]

new(copies, price, royalties, checks) ==
    /\ token_metadata = [copies |-> copies]
    /\ minting_price = price
    /\ perpetual_royalties = royalties
    /\ overflow_checks = checks
    /\ minted_tokens = 0
    /\ tokens = NewTokens
    /\ last = [call |-> Call("new"), ok |-> TRUE, err |-> "", token |-> None,
               payout |-> None, approval |-> None, prev |-> None]
    /\ mint_log = <<>>

(***************************************************************************)
(* Actions: one per public method.  env gives the sets the arguments are   *)
(* drawn from: accounts, token_ids, approval_ids, deposits, storage_costs, *)
(* balances, max_lens, and max_approvals (nft_approve is cut off once a    *)
(* token has been issued that many approval ids).                          *)
(***************************************************************************)
Options(S) == {None} \cup {Some(v) : v \in S}

NextApprovalId(token_id) ==
    IF token_id \in DOMAIN tokens.next_approval_id_by_id
    THEN tokens.next_approval_id_by_id[token_id] ELSE 1

NftBuy(env) ==
    \E caller_id \in env.accounts, receiver_id \in Options(env.accounts),
       deposit \in env.deposits, storage_cost \in env.storage_costs :
        LET r == nft_buy(Self, caller_id, receiver_id, deposit, storage_cost)
        IN  /\ Finish([Call("nft_buy") EXCEPT
                          !.predecessor = Some(caller_id), !.deposit = Some(deposit),
                          !.receiver_id = receiver_id], r)
            /\ mint_log' = IF r.ok THEN Append(mint_log, Unwrap(r.token).token_id)
                           ELSE mint_log

RedeemNft(env) ==
    \E caller_id \in env.accounts, token_id \in env.token_ids, deposit \in env.deposits :
        /\ Finish([Call("redeem_nft") EXCEPT
                      !.predecessor = Some(caller_id), !.deposit = Some(deposit),
                      !.token_id = Some(token_id)],
                  redeem_nft(Self, caller_id, token_id, deposit))
        /\ UNCHANGED mint_log

NftTransfer(env) ==
    \E sender_id \in env.accounts, receiver_id \in env.accounts,
       token_id \in env.token_ids, approval_id \in Options(env.approval_ids),
       deposit \in env.deposits :
        /\ Finish([Call("nft_transfer") EXCEPT
                      !.predecessor = Some(sender_id), !.deposit = Some(deposit),
                      !.receiver_id = Some(receiver_id), !.token_id = Some(token_id),
                      !.approval_id = approval_id],
                  nft_transfer(Self, sender_id, receiver_id, token_id, approval_id, deposit))
        /\ UNCHANGED mint_log

NftTransferPayout(env) ==
    \E sender_id \in env.accounts, receiver_id \in env.accounts,
       token_id \in env.token_ids, approval_id \in env.approval_ids,
       balance \in env.balances, max_len_payout \in env.max_lens,
       deposit \in env.deposits :
        /\ Finish([Call("nft_transfer_payout") EXCEPT
                      !.predecessor = Some(sender_id), !.deposit = Some(deposit),
                      !.receiver_id = Some(receiver_id), !.token_id = Some(token_id),
                      !.approval_id = Some(approval_id), !.balance = Some(balance),
                      !.max_len_payout = Some(max_len_payout)],
                  nft_transfer_payout(Self, sender_id, receiver_id, token_id, approval_id,
                                      balance, max_len_payout, deposit))
        /\ UNCHANGED mint_log

NftPayout(env) ==
    \E token_id \in env.token_ids, balance \in env.balances,
       max_len_payout \in env.max_lens :
        /\ Finish([Call("nft_payout") EXCEPT
                      !.token_id = Some(token_id), !.balance = Some(balance),
                      !.max_len_payout = Some(max_len_payout)],
                  nft_payout(Self, token_id, balance, max_len_payout))
        /\ UNCHANGED mint_log

NftApprove(env) ==
    \E predecessor \in env.accounts, token_id \in env.token_ids,
       account_id \in env.accounts, deposit \in env.deposits,
       storage_cost \in env.storage_costs :
        /\ NextApprovalId(token_id) <= env.max_approvals
        /\ Finish([Call("nft_approve") EXCEPT
                      !.predecessor = Some(predecessor), !.deposit = Some(deposit),
                      !.token_id = Some(token_id), !.account_id = Some(account_id)],
                  nft_approve(Self, predecessor, token_id, account_id, deposit, storage_cost))
        /\ UNCHANGED mint_log

NftRevoke(env) ==
    \E predecessor \in env.accounts, token_id \in env.token_ids,
       account_id \in env.accounts, deposit \in env.deposits :
        /\ Finish([Call("nft_revoke") EXCEPT
                      !.predecessor = Some(predecessor), !.deposit = Some(deposit),
                      !.token_id = Some(token_id), !.account_id = Some(account_id)],
                  nft_revoke(Self, predecessor, token_id, account_id, deposit))
        /\ UNCHANGED mint_log

NftRevokeAll(env) ==
    \E predecessor \in env.accounts, token_id \in env.token_ids,
       deposit \in env.deposits :
        /\ Finish([Call("nft_revoke_all") EXCEPT
                      !.predecessor = Some(predecessor), !.deposit = Some(deposit),
                      !.token_id = Some(token_id)],
                  nft_revoke_all(Self, predecessor, token_id, deposit))
        /\ UNCHANGED mint_log

(***************************************************************************)
(* Spec: the ledger with up to MaxCopies tokens between two accounts.      *)
(***************************************************************************)
TokenIds(n) == {U64ToString(k) : k \in 0..n}

LedgerEnv ==
    [accounts |-> {"alice", "bob"}, token_ids |-> TokenIds(MaxCopies),
     approval_ids |-> 0..MaxApprovals, deposits |-> 0..MaxDeposit,
     storage_costs |-> {1, MaxDeposit + 1}, balances |-> {1000}, max_lens |-> {0, 1},
     max_approvals |-> MaxApprovals]

\* No payout of this specification overflows (one royalty of 1000 basis
\* points, balances of 1000), so the build profile is not varied here.
Init ==
    \E copies \in Options(1..MaxCopies) :
        new(copies, MaxDeposit, Some([a \in {"bob"} |-> 1000]), FALSE)

Next ==
    \/ NftBuy(LedgerEnv)
    \/ RedeemNft(LedgerEnv)
    \/ NftTransfer(LedgerEnv)
    \/ NftTransferPayout(LedgerEnv)
    \/ NftApprove(LedgerEnv)
    \/ NftRevoke(LedgerEnv)
    \/ NftRevokeAll(LedgerEnv)

Spec == Init /\ [][Next]_vars

(***************************************************************************)
(* SpecApprovals: one token among three accounts, with one approval id     *)
(* more per token, so that an owner, a delegate and a stranger meet and an *)
(* approval can be superseded.                                             *)
(***************************************************************************)
ApprovalEnv ==
    [accounts |-> {"alice", "bob", "carol"}, token_ids |-> TokenIds(1),
     approval_ids |-> 0..(MaxApprovals + 1), deposits |-> 0..MaxDeposit,
     storage_costs |-> {1, MaxDeposit + 1}, balances |-> {1000}, max_lens |-> {0, 1},
     max_approvals |-> MaxApprovals + 1]

InitApprovals == new(Some(1), MaxDeposit, Some([a \in {"bob"} |-> 1000]), FALSE)

NextApprovals ==
    \/ NftBuy(ApprovalEnv)
    \/ RedeemNft(ApprovalEnv)
    \/ NftTransfer(ApprovalEnv)
    \/ NftTransferPayout(ApprovalEnv)
    \/ NftApprove(ApprovalEnv)
    \/ NftRevoke(ApprovalEnv)
    \/ NftRevokeAll(ApprovalEnv)

SpecApprovals == InitApprovals /\ [][NextApprovals]_vars

(***************************************************************************)
(* SpecMint: a run of MintCopies mints, long enough for ids of two digits, *)
(* with transfers of the first id and of the first two-digit id.           *)
(***************************************************************************)
MintEnv ==
    [accounts |-> {"alice"}, token_ids |-> {}, approval_ids |-> {},
     deposits |-> 0..MaxDeposit, storage_costs |-> {1, MaxDeposit + 1},
     balances |-> {}, max_lens |-> {}, max_approvals |-> 0]

MintTransferEnv ==
    [accounts |-> {"alice", "bob"}, token_ids |-> {U64ToString(1), U64ToString(10)},
     approval_ids |-> {}, deposits |-> {1}, storage_costs |-> {1},
     balances |-> {}, max_lens |-> {}, max_approvals |-> 0]

InitMint == new(Some(MintCopies), MaxDeposit, None, FALSE)

NextMint ==
    \/ NftBuy(MintEnv)
    \/ NftTransfer(MintTransferEnv)

SpecMint == InitMint /\ [][NextMint]_vars

(***************************************************************************)
(* SpecPayout: one token among three accounts, sold for amounts from 0 to  *)
(* the largest u128, under royalty tables that new accepts (it accepts     *)
(* every table): none, one or two beneficiaries, the owner among them or   *)
(* not, shares that add up to less than, exactly, and more than 10000, and *)
(* under both build profiles.                                              *)
(***************************************************************************)
Table(alice, bob, carol) ==
    LET shares == [a \in {"alice", "bob", "carol"} |->
                      IF a = "alice" THEN alice ELSE IF a = "bob" THEN bob ELSE carol]
    IN  [a \in {x \in DOMAIN shares : shares[x] # None} |-> Unwrap(shares[a])]

PayoutTables ==
    {None, Some(EmptyMap),
     Some(Table(None, Some(1000), None)),
     Some(Table(Some(3333), Some(3333), None)),
     Some(Table(None, Some(2500), Some(7500))),
     Some(Table(Some(0), None, Some(10000))),
     Some(Table(None, Some(12000), None)),
     Some(Table(None, Some(9000), Some(9000)))}

PayoutEnv ==
    [accounts |-> {"alice", "bob", "carol"}, token_ids |-> TokenIds(1),
     approval_ids |-> {0}, deposits |-> {MaxDeposit}, storage_costs |-> {1},
     balances |-> {0, 1, 1000, 9999, U128Max \div BASIS_POINTS,
                   U128Max \div BASIS_POINTS + 1, U128Max},
     max_lens |-> 1..2, max_approvals |-> 0]

InitPayout ==
    \E royalties \in PayoutTables, checks \in BOOLEAN :
        new(Some(1), MaxDeposit, royalties, checks)

NextPayout ==
    \/ NftBuy(PayoutEnv)
    \/ NftPayout(PayoutEnv)
    \/ NftTransferPayout(PayoutEnv)

SpecPayout == InitPayout /\ [][NextPayout]_vars

(***************************************************************************)
(* SpecSale: one token sold by its owner or by an approved account, with   *)
(* and without royalties, for an amount that overflows and one that does   *)
(* not, under both build profiles.                                         *)
(***************************************************************************)
SaleTables ==
    {None, Some(Table(None, Some(1000), None)), Some(Table(Some(3333), Some(3333), None))}

SaleEnv ==
    [accounts |-> {"alice", "bob", "carol"}, token_ids |-> {U64ToString(1)},
     approval_ids |-> 0..MaxApprovals, deposits |-> {1}, storage_costs |-> {1},
     balances |-> {1000, U128Max}, max_lens |-> 1..2, max_approvals |-> MaxApprovals]

InitSale ==
    \E royalties \in SaleTables, checks \in BOOLEAN :
        new(Some(1), 1, royalties, checks)

NextSale ==
    \/ NftBuy(SaleEnv)
    \/ NftApprove(SaleEnv)
    \/ NftPayout(SaleEnv)
    \/ NftTransferPayout(SaleEnv)

SpecSale == InitSale /\ [][NextSale]_vars

(***************************************************************************)
(* The claims.                                                             *)
(***************************************************************************)
Cap == Unwrap(token_metadata.copies)
Minted == DOMAIN tokens.owner_by_id
Owner(token_id) == tokens.owner_by_id[token_id]
LastIs(op) == last.call.op = op /\ last.ok

\* minted_tokens is within the cap; a contract without a cap mints nothing
C1_WithinCap ==
    IF token_metadata.copies = None THEN minted_tokens = 0 ELSE minted_tokens <= Cap
\* a step keeps minted_tokens, or is a successful nft_buy that adds 1
C1_Step ==
    \/ minted_tokens' = minted_tokens
    \/ /\ minted_tokens' = minted_tokens + 1
       /\ last'.call.op = "nft_buy" /\ last'.ok
\* C1: minted_tokens never exceeds the supply cap (token_metadata.copies),
\* and every step either leaves minted_tokens unchanged or is a successful
\* nft_buy that adds exactly 1.
C1_SupplyBound == [](C1_WithinCap) /\ [][C1_Step]_vars
C1_Witness ==
    /\ LastIs("nft_buy")
    /\ token_metadata.copies = Some(MaxCopies)
    /\ minted_tokens = MaxCopies

\* C2 as stated: once minted_tokens equals the supply cap, every nft_buy
\* fails with SoldOut, whatever the caller and the attached payment.
C2_SoldOutWhateverPayment ==
    [][(token_metadata.copies # None /\ minted_tokens = Cap /\ last'.call.op = "nft_buy")
        => (~last'.ok /\ last'.err = "SoldOut")]_vars

\* at the cap every nft_buy fails, by its payment with one error or the other
C2_SoldOutCalls ==
    (token_metadata.copies # None /\ minted_tokens = Cap) =>
        \A caller_id \in LedgerEnv.accounts, receiver_id \in Options(LedgerEnv.accounts),
           deposit \in LedgerEnv.deposits, storage_cost \in LedgerEnv.storage_costs :
            LET r == nft_buy(Self, caller_id, receiver_id, deposit, storage_cost)
            IN  /\ ~r.ok
                /\ r.err = IF deposit >= minting_price THEN "SoldOut"
                           ELSE "InsufficientPayment"
\* at the cap a step of nft_buy fails and writes nothing
C2_SoldOutStep ==
    (token_metadata.copies # None /\ minted_tokens = Cap /\ last'.call.op = "nft_buy")
        => /\ ~last'.ok
           /\ last'.err \in {"SoldOut", "InsufficientPayment"}
           /\ minted_tokens' = minted_tokens /\ tokens' = tokens
\* C2 as amended: once minted_tokens equals the supply cap, every nft_buy
\* fails, for every caller, receiver and attached payment, and mints nothing;
\* the payment is checked before the supply, so the error is SoldOut when
\* the payment covers the mint price and InsufficientPayment when it does not.
C2_SoldOutAfterPayment == [](C2_SoldOutCalls) /\ [][C2_SoldOutStep]_vars
C2_Witness ==
    /\ token_metadata.copies = Some(MaxCopies) /\ minted_tokens = MaxCopies
    /\ last.call.op = "nft_buy" /\ ~last.ok /\ last.err = "SoldOut"

\* Reading a decimal string back: the number it denotes, and whether it is
\* the decimal string of n (digits only, no leading zero).
DigitValue(c) == CHOOSE d \in 0..9 : Digits[d + 1] = c

RECURSIVE ParseU64(_)
ParseU64(str) ==
    IF Len(str) = 0 THEN 0
    ELSE 10 * ParseU64(SubSeq(str, 1, Len(str) - 1)) + DigitValue(str[Len(str)])

IsDecimalOf(str, n) ==
    /\ Len(str) >= 1
    /\ \A i \in 1..Len(str) : \E d \in 0..9 : Digits[d + 1] = str[i]
    /\ Len(str) > 1 => str[1] # "0"
    /\ ParseU64(str) = n

\* C3: the k-th successful nft_buy returns the decimal string of k, which is
\* the new minted_tokens: the ids are 1, 2, 3, ... and no two mints return
\* the same id.
C3_SequentialIds ==
    /\ Len(mint_log) = minted_tokens
    /\ \A k \in 1..Len(mint_log) : IsDecimalOf(mint_log[k], k)
    /\ \A i, j \in 1..Len(mint_log) : i # j => mint_log[i] # mint_log[j]
C3_Witness ==
    /\ LastIs("nft_buy")
    /\ Len(mint_log) = MintCopies
    /\ Unwrap(last.token).token_id = U64ToString(MintCopies)
    /\ Len(Unwrap(last.token).token_id) = 2
    /\ Owner(U64ToString(1)) = "bob"

Transfers == {"nft_transfer", "nft_transfer_payout"}
\* the ledger holds the ids 1..minted_tokens, each owned by an account
C4_Ledger ==
    /\ Minted = {U64ToString(k) : k \in 1..minted_tokens}
    /\ DOMAIN tokens.token_metadata_by_id = Minted
    /\ \A t \in Minted : Owner(t) # "" /\ Owner(t) \in LedgerEnv.accounts
\* a token stays, and changes owner only by a successful transfer of it
C4_OwnerStep ==
    \A t \in Minted :
        /\ t \in DOMAIN tokens'.owner_by_id
        /\ tokens'.owner_by_id[t] # Owner(t) =>
              /\ last'.ok /\ last'.call.op \in Transfers
              /\ last'.call.token_id = Some(t)
              /\ last'.call.receiver_id = Some(tokens'.owner_by_id[t])
\* C4: the ids in the ledger are exactly 1..minted_tokens, each with one
\* owner that is an account (never empty); a token is never removed, and its
\* owner changes only in a successful nft_transfer or nft_transfer_payout of
\* that token, to the receiver of that call.
C4_OneOwnerPerMintedId == [](C4_Ledger) /\ [][C4_OwnerStep]_vars
C4_Witness ==
    /\ minted_tokens = MaxCopies
    /\ last.ok /\ last.call.op \in Transfers
    /\ last.call.token_id = Some(U64ToString(MaxCopies))
    /\ Unwrap(last.prev).owner_id # Owner(U64ToString(MaxCopies))

\* C5: right after a successful nft_transfer or nft_transfer_payout the
\* token has no approval: nft_is_approved is false for every account and
\* every approval id (and for none), also for the accounts approved before.
C5_ApprovalsCleared ==
    (last.ok /\ last.call.op \in Transfers) =>
        LET t == Unwrap(last.call.token_id)
        IN  /\ Unwrap(nft_token(tokens, t)).approved_account_ids = EmptyMap
            /\ \A d \in ApprovalEnv.accounts, id \in Options(0..(MaxApprovals + 2)) :
                  ~nft_is_approved(tokens, t, d, id)
C5_Witness ==
    /\ last.ok /\ last.call.op = "nft_transfer_payout"
    /\ Unwrap(last.prev).approved_account_ids # None
    /\ Cardinality(DOMAIN Unwrap(Unwrap(last.prev).approved_account_ids)) = 2

\* The payout that the last call returned, the amount it split, and the
\* owner it was computed for: the owner of the token for nft_payout, the
\* owner before the transfer for nft_transfer_payout.
Payouts == {"nft_payout", "nft_transfer_payout"}
Returned == last.ok /\ last.call.op \in Payouts
Amount == Unwrap(last.call.balance)
Paid == Unwrap(last.payout)
PaidOwner ==
    IF last.call.op = "nft_payout" THEN Owner(Unwrap(last.call.token_id))
    ELSE Unwrap(last.prev).owner_id
Royalties == IF perpetual_royalties = None THEN EmptyMap ELSE Unwrap(perpetual_royalties)

\* floor(share * amount / 10000), computed without a product above 2^31
FloorShare(share, amount) ==
    share * (amount \div BASIS_POINTS) + (share * (amount % BASIS_POINTS)) \div BASIS_POINTS

\* C6: under a royalty table whose shares add up to at most 10000, for every
\* owner and every sale amount A, the amounts of a returned payout add up
\* to at most A, and A minus their sum is less than the number of entries.
C6_PayoutConserved ==
    (Returned /\ SumOver(Royalties, DOMAIN Royalties) <= BASIS_POINTS) =>
        /\ SumOver(Paid, DOMAIN Paid) <= Amount
        /\ Amount - SumOver(Paid, DOMAIN Paid) < Cardinality(DOMAIN Paid)

\* C7: a returned payout has one entry for each beneficiary b of the royalty
\* table other than the owner O, of floor(share(b) * A / 10000), and one
\* entry for O, of floor((10000 - the shares of those others) * A / 10000).
C7_PayoutExact ==
    Returned =>
        LET others == (DOMAIN Royalties) \ {PaidOwner}
        IN  /\ DOMAIN Paid = others \cup {PaidOwner}
            /\ \A b \in others : Paid[b] = FloorShare(Royalties[b], Amount)
            /\ Paid[PaidOwner] =
                  FloorShare(BASIS_POINTS - SumOver(Royalties, others), Amount)

\* the redeemed tag of a minted token
Extra(token_id) == tokens.token_metadata_by_id[token_id]
\* what redeem_nft does with each token, by its tag
C8_Redeem ==
    \A t \in Minted :
        IF Extra(t) = REDEEMED_FALSE
        THEN LET r == redeem_nft(Self, Owner(t), t, 1)
             IN  /\ r.ok
                 /\ r.self.tokens.token_metadata_by_id[t] = REDEEMED_TRUE
                 /\ Unwrap(r.token).extra = Some(REDEEMED_TRUE)
        ELSE /\ Extra(t) = REDEEMED_TRUE
             /\ \A caller_id \in LedgerEnv.accounts, deposit \in LedgerEnv.deposits :
                   ~redeem_nft(Self, caller_id, t, deposit).ok
             /\ redeem_nft(Self, Owner(t), t, 1).err = "AlreadyRedeemed"
\* a tag stays redeemed:true, and changes only by its owner's redeem_nft
C8_TagStep ==
    \A t \in Minted :
        /\ Extra(t) = REDEEMED_TRUE => tokens'.token_metadata_by_id[t] = REDEEMED_TRUE
        /\ tokens'.token_metadata_by_id[t] # Extra(t) =>
              /\ last'.ok /\ last'.call.op = "redeem_nft"
              /\ last'.call.token_id = Some(t)
              /\ last'.call.predecessor = Some(Owner(t))
\* C8: redemption is one way.  While a token is tagged redeemed:false a
\* redeem by its owner succeeds and tags it redeemed:true; once it is tagged
\* redeemed:true every redeem of it fails, with AlreadyRedeemed when its
\* owner calls, and no step of any operation makes the tag redeemed:false
\* again.  (A redeem attaches exactly one yoctoNEAR, as the method demands.)
C8_RedeemedForGood == [](C8_Redeem) /\ [][C8_TagStep]_vars
C8_Witness ==
    /\ last.call.op = "redeem_nft" /\ ~last.ok /\ last.err = "AlreadyRedeemed"
    /\ \E t \in Minted : Extra(t) = REDEEMED_TRUE /\ t \in DOMAIN tokens.next_approval_id_by_id

\* a step of a call that failed keeps the counter and the whole ledger
C9_FailedCallStep ==
    ~last'.ok => /\ minted_tokens' = minted_tokens
                 /\ tokens' = tokens
                 /\ mint_log' = mint_log
Authorized(sender_id, token_id, approval_id) ==
    \/ sender_id = Owner(token_id)
    \/ nft_is_approved(tokens, token_id, sender_id, approval_id)
\* every transfer that would succeed now comes from an authorized sender
C10_Calls ==
    \A t \in Minted, sender_id \in ApprovalEnv.accounts, receiver_id \in ApprovalEnv.accounts :
        /\ \A approval_id \in Options(ApprovalEnv.approval_ids) :
              nft_transfer(Self, sender_id, receiver_id, t, approval_id, 1).ok
                  => Authorized(sender_id, t, approval_id)
        /\ \A approval_id \in ApprovalEnv.approval_ids, max_len_payout \in ApprovalEnv.max_lens :
              nft_transfer_payout(Self, sender_id, receiver_id, t, approval_id,
                                  1000, max_len_payout, 1).ok
                  => Authorized(sender_id, t, Some(approval_id))
\* a step that changes an owner is a transfer by an authorized sender
C10_OwnerStep ==
    \A t \in Minted :
        tokens'.owner_by_id[t] # Owner(t) =>
            /\ last'.ok /\ last'.call.op \in Transfers /\ last'.call.token_id = Some(t)
            /\ Authorized(Unwrap(last'.call.predecessor), t, last'.call.approval_id)
\* C10: a transfer (nft_transfer or nft_transfer_payout) succeeds only if its
\* sender is the owner of the token, or is approved for the token under the
\* approval id given with the call when one is given; the owner of a token
\* changes in no other step, so a revoked, cleared or superseded approval
\* moves nothing.
C10_OnlyOwnerOrApproved == [](C10_Calls) /\ [][C10_OwnerStep]_vars
C10_Witness ==
    /\ last.ok /\ last.call.op \in Transfers
    /\ last.call.predecessor # Some(Unwrap(last.prev).owner_id)
    /\ last.call.approval_id = Some(MaxApprovals + 1)
    /\ last.call.receiver_id \notin {last.call.predecessor, Some(Unwrap(last.prev).owner_id)}

\* the approval ids of a token: each one held is below the token's counter,
\* and nft_is_approved with an id is true exactly of the id that is held
C11_Ids ==
    \A t \in Minted :
        /\ next_approval_id(tokens, t) >= 1
        /\ \A d \in ApprovalEnv.accounts, id \in 0..(MaxApprovals + 2) :
              nft_is_approved(tokens, t, d, Some(id)) <=>
                  /\ t \in DOMAIN tokens.approvals_by_id
                  /\ d \in DOMAIN tokens.approvals_by_id[t]
                  /\ tokens.approvals_by_id[t][d] = id
                  /\ 1 <= id /\ id < next_approval_id(tokens, t)
\* the counter of a token never goes down; a successful nft_approve returns
\* the counter and moves it up by one; an id becomes valid for a delegate
\* only as the id that a successful nft_approve of that delegate returns,
\* which is at or above the counter and so above every id issued before
C11_Step ==
    \A t \in DOMAIN tokens'.owner_by_id :
        /\ next_approval_id(tokens', t) >= next_approval_id(tokens, t)
        /\ (last'.ok /\ last'.call.op = "nft_approve" /\ last'.call.token_id = Some(t)) =>
              /\ last'.approval = Some(next_approval_id(tokens, t))
              /\ next_approval_id(tokens', t) = next_approval_id(tokens, t) + 1
              /\ nft_is_approved(tokens', t, Unwrap(last'.call.account_id), last'.approval)
        /\ \A d \in ApprovalEnv.accounts, id \in 0..(MaxApprovals + 2) :
              (nft_is_approved(tokens', t, d, Some(id)) /\ ~nft_is_approved(tokens, t, d, Some(id)))
                  => /\ last'.ok /\ last'.call.op = "nft_approve"
                     /\ last'.call.token_id = Some(t) /\ last'.call.account_id = Some(d)
                     /\ last'.approval = Some(id)
                     /\ id >= next_approval_id(tokens, t)
\* C11: the approval ids of a token come from a counter that starts at 1 and
\* only goes up, also across transfers and revocations: every successful
\* nft_approve returns an id above every id issued for the token before, and
\* nft_is_approved(token, delegate, Some(id)) is true only of the id last
\* issued to that delegate while it is neither revoked nor cleared; an id
\* that stopped being valid never becomes valid again.
C11_ApprovalIdsOnlyGrow == [](C11_Ids) /\ [][C11_Step]_vars
C11_Witness ==
    /\ last.ok /\ last.call.op = "nft_approve"
    /\ last.approval = Some(MaxApprovals + 1)
    /\ \E t \in Minted, d \in ApprovalEnv.accounts :
          /\ last.call.token_id = Some(t) /\ last.call.account_id = Some(d)
          /\ DOMAIN tokens.approvals_by_id[t] = {d}
          /\ ~nft_is_approved(tokens, t, d, Some(1))
          /\ nft_is_approved(tokens, t, d, last.approval)

\* a step of a successful nft_buy: what it required, the one token it adds,
\* the token it returns, and all that it leaves as it was
C12_MintStep ==
    (last'.ok /\ last'.call.op = "nft_buy") =>
        LET t == U64ToString(minted_tokens + 1)
            to == IF last'.call.receiver_id # None THEN Unwrap(last'.call.receiver_id)
                  ELSE Unwrap(last'.call.predecessor)
        IN  /\ Unwrap(last'.call.deposit) >= minting_price
            /\ minted_tokens < Cap
            /\ minted_tokens' = minted_tokens + 1
            /\ t \notin Minted
            /\ DOMAIN tokens'.owner_by_id = Minted \cup {t}
            /\ tokens'.owner_by_id[t] = to
            /\ tokens'.token_metadata_by_id[t] = REDEEMED_FALSE
            /\ \A d \in LedgerEnv.accounts : ~nft_is_approved(tokens', t, d, None)
            /\ last'.token = Some(Token(t, to, Some(REDEEMED_FALSE), EmptyMap))
            /\ nft_token(tokens', t) = last'.token
            /\ \A old \in Minted : nft_token(tokens', old) = nft_token(tokens, old)
            /\ tokens'.approvals_by_id = tokens.approvals_by_id
            /\ tokens'.next_approval_id_by_id = tokens.next_approval_id_by_id
\* C12: a successful nft_buy (its payment is at least the mint price and
\* minted_tokens is below the cap) adds exactly one token, owned by the
\* receiver given or else by the caller, tagged redeemed:false and without
\* approvals, and changes no token that existed.
C12_MintAddsOneToken == [][C12_MintStep]_vars
C12_Witness ==
    /\ LastIs("nft_buy") /\ last.call.receiver_id = None
    /\ minted_tokens = MaxCopies
    /\ Owner(U64ToString(MaxCopies)) = Unwrap(last.call.predecessor)
    /\ Owner(U64ToString(1)) # Owner(U64ToString(MaxCopies))
    /\ Extra(U64ToString(1)) = REDEEMED_TRUE
    /\ U64ToString(1) \in DOMAIN tokens.approvals_by_id

\* a step of a successful nft_transfer_payout returns the payout of nft_payout
\* in the state it started from; the owner it left is paid, and the receiver
\* and the sender are paid only as beneficiaries of the royalty table
C13_Step ==
    (last'.ok /\ last'.call.op = "nft_transfer_payout") =>
        LET t == Unwrap(last'.call.token_id)
            preview == nft_payout(Self, t, Unwrap(last'.call.balance),
                                  Unwrap(last'.call.max_len_payout))
        IN  /\ preview.ok
            /\ last'.payout = preview.payout
            /\ Owner(t) \in DOMAIN Unwrap(last'.payout)
            /\ \A a \in {Unwrap(last'.call.receiver_id), Unwrap(last'.call.predecessor)} \ {Owner(t)} :
                  a \in DOMAIN Unwrap(last'.payout) => a \in DOMAIN Royalties
\* C13: the payout that a successful nft_transfer_payout returns is the
\* payout that nft_payout returns, for the same token, balance and
\* max_len_payout, in the state just before the transfer: the residual share
\* goes to the owner before the transfer, not to the receiver.
C13_PayoutOfTheSeller == [][C13_Step]_vars
C13_Witness ==
    /\ last.ok /\ last.call.op = "nft_transfer_payout"
    /\ Amount = 1000
    /\ Cardinality(DOMAIN Paid) = 2
    /\ Paid[PaidOwner] = 900
    /\ Unwrap(last.call.receiver_id) \notin DOMAIN Paid
    /\ Unwrap(last.call.predecessor) \notin DOMAIN Paid
    /\ nft_payout(Self, Unwrap(last.call.token_id), 1000, 2).payout # last.payout

\* The calls of nft_buy and nft_transfer_payout that can be made now; the
\* self of an outcome that failed is the contract as the failing check
\* found it.
BuyCalls ==
    {nft_buy(Self, caller_id, receiver_id, deposit, storage_cost) :
        caller_id \in LedgerEnv.accounts, receiver_id \in Options(LedgerEnv.accounts),
        deposit \in LedgerEnv.deposits, storage_cost \in LedgerEnv.storage_costs}
SaleCalls ==
    {nft_transfer_payout(Self, sender_id, receiver_id, token_id, approval_id, 1000,
                         max_len_payout, deposit) :
        sender_id \in LedgerEnv.accounts, receiver_id \in LedgerEnv.accounts,
        token_id \in LedgerEnv.token_ids, approval_id \in LedgerEnv.approval_ids,
        max_len_payout \in LedgerEnv.max_lens, deposit \in LedgerEnv.deposits}
EarlyErrors ==
    {"InsufficientPayment", "CopiesUnset", "SoldOut", "RequiresOneYocto", "TokenNotFound"}

\* C14 as stated: every check that can fail is evaluated before the first
\* write: when nft_transfer_payout fails its max_len_payout check the owner
\* and the approvals are as the call found them, and when nft_buy fails
\* minted_tokens has not been incremented.
C14_ChecksBeforeWrites ==
    /\ \A r \in SaleCalls : (~r.ok /\ r.err = "TooManyBeneficiaries") => r.self = Self
    /\ \A r \in BuyCalls : ~r.ok => r.self.minted_tokens = minted_tokens

\* C14 as amended: the checks of the payment and of the supply in nft_buy,
\* and of the deposit and of the token in nft_transfer_payout, fail before
\* any write.  The max_len_payout check of nft_transfer_payout fails after
\* the owner was changed and the approvals were removed, the checks of the
\* sender and of the receiver after the approvals were removed, and the
\* storage deposit check of nft_buy after minted_tokens was incremented and
\* the token written.  Whichever check fails, the call commits nothing.
C14_LateChecksRolledBack ==
    /\ \A r \in BuyCalls \cup SaleCalls :
          ~r.ok => /\ Committed(r) = Self
                   /\ r.err \in EarlyErrors => r.self = Self
    /\ \A r \in BuyCalls :
          (~r.ok /\ r.err \notin EarlyErrors) =>
              /\ r.err = "StorageDeposit"
              /\ r.self.minted_tokens = minted_tokens + 1
              /\ DOMAIN r.self.tokens.owner_by_id = Minted \cup {U64ToString(minted_tokens + 1)}
    /\ \A r \in SaleCalls :
          (~r.ok /\ r.err \notin EarlyErrors) =>
              /\ r.err \in {"NotOwnerOrApproved", "SameOwner", "TooManyBeneficiaries"}
              /\ DOMAIN r.self.tokens.approvals_by_id # DOMAIN tokens.approvals_by_id
                    \/ r.self.tokens.approvals_by_id = tokens.approvals_by_id
              /\ r.err = "TooManyBeneficiaries" =>
                    /\ r.self.tokens.owner_by_id # tokens.owner_by_id
                    /\ \A t \in Minted : t \notin DOMAIN r.self.tokens.approvals_by_id
                                            \/ r.self.tokens.owner_by_id[t] = Owner(t)
C14_Witness ==
    /\ last.call.op = "nft_transfer_payout" /\ ~last.ok
    /\ last.err = "TooManyBeneficiaries"
    /\ \E r \in SaleCalls :
          /\ ~r.ok /\ r.err = "TooManyBeneficiaries"
          /\ r.self.tokens.approvals_by_id # tokens.approvals_by_id
          /\ r.self.tokens.owner_by_id # tokens.owner_by_id
    /\ \E r \in BuyCalls : r.err = "StorageDeposit"

\* The senders of a transfer that pass the check of the sender, each with an
\* approval id it passes with.
Senders(token_id) ==
    {c \in [sender_id : ApprovalEnv.accounts, approval_id : Options(ApprovalEnv.approval_ids)] :
        Authorized(c.sender_id, token_id, c.approval_id)}

\* C15 as stated: a transfer whose sender is also its receiver is rejected
\* with SameOwner and changes nothing, for every sender that is otherwise
\* authorized, the owner as well as an approved account.
C15_SenderIsReceiver ==
    \A t \in Minted : \A c \in Senders(t) :
        LET r == nft_transfer(Self, c.sender_id, c.sender_id, t, c.approval_id, 1)
        IN  ~r.ok /\ r.err = "SameOwner" /\ Committed(r) = Self

\* what a transfer by an authorized sender does, by its receiver
C15_Calls ==
    \A t \in Minted : \A c \in Senders(t) :
        /\ LET r == nft_transfer(Self, c.sender_id, Owner(t), t, c.approval_id, 1)
           IN  ~r.ok /\ r.err = "SameOwner" /\ Committed(r) = Self
        /\ c.approval_id # None =>
              LET r == nft_transfer_payout(Self, c.sender_id, Owner(t), t,
                                           Unwrap(c.approval_id), 1000, 1, 1)
              IN  ~r.ok /\ r.err = "SameOwner" /\ Committed(r) = Self
        /\ c.sender_id # Owner(t) =>
              LET r == nft_transfer(Self, c.sender_id, c.sender_id, t, c.approval_id, 1)
              IN  r.ok /\ Committed(r).tokens.owner_by_id[t] = c.sender_id
\* no transfer hands a token to the owner it has
C15_Step ==
    \A t \in Minted :
        (last'.ok /\ last'.call.op \in Transfers /\ last'.call.token_id = Some(t))
            => /\ last'.call.receiver_id # Some(Owner(t))
               /\ tokens'.owner_by_id[t] # Owner(t)
\* C15 as amended: a transfer whose receiver is the current owner of the
\* token is rejected with SameOwner and changes nothing, for every sender
\* that is otherwise authorized, the owner as well as an approved account;
\* the sender is not compared with the receiver, so an approved account that
\* transfers the token to itself succeeds and becomes the owner.
C15_ReceiverIsOwner == [](C15_Calls) /\ [][C15_Step]_vars
C15_Witness ==
    /\ last.ok /\ last.call.op \in Transfers
    /\ last.call.predecessor = last.call.receiver_id
    /\ Some(Owner(Unwrap(last.call.token_id))) = last.call.predecessor
    /\ Some(Unwrap(last.prev).owner_id) # last.call.predecessor

\* the approved accounts of a token with their ids, in a ledger
Approvals(nft, token_id) ==
    IF token_id \in DOMAIN nft.approvals_by_id THEN nft.approvals_by_id[token_id]
    ELSE EmptyMap

\* nft_approve, nft_revoke and nft_revoke_all of a minted token: by another
\* account than the owner they fail, with NotOwner when the deposit is the
\* one the method demands, and commit nothing; by the owner nft_revoke takes
\* out the entry of the account named and no other, and nft_revoke_all
\* leaves no entry
C16_Calls ==
    \A t \in Minted, caller \in ApprovalEnv.accounts, d \in ApprovalEnv.accounts :
        LET approve(deposit) == nft_approve(Self, caller, t, d, deposit, 1)
            revoke(deposit) == nft_revoke(Self, caller, t, d, deposit)
            revoke_all(deposit) == nft_revoke_all(Self, caller, t, deposit)
        IN  IF caller # Owner(t)
            THEN /\ \A deposit \in ApprovalEnv.deposits :
                       \A r \in {approve(deposit), revoke(deposit), revoke_all(deposit)} :
                           ~r.ok /\ Committed(r) = Self
                 /\ \A r \in {approve(1), revoke(1), revoke_all(1)} : r.err = "NotOwner"
            ELSE /\ revoke(1).ok
                 /\ Approvals(revoke(1).self.tokens, t) = Remove(Approvals(tokens, t), d)
                 /\ ~nft_is_approved(revoke(1).self.tokens, t, d, None)
                 /\ \A other \in ApprovalEnv.accounts \ {d}, id \in Options(ApprovalEnv.approval_ids) :
                       nft_is_approved(revoke(1).self.tokens, t, other, id)
                           <=> nft_is_approved(tokens, t, other, id)
                 /\ revoke_all(1).ok
                 /\ \A any \in ApprovalEnv.accounts, id \in Options(ApprovalEnv.approval_ids) :
                       ~nft_is_approved(revoke_all(1).self.tokens, t, any, id)
\* the approvals of a token change only in a successful nft_approve,
\* nft_revoke or nft_revoke_all of it called by its owner, or in a successful
\* transfer of it
C16_Step ==
    \A t \in Minted :
        Approvals(tokens', t) # Approvals(tokens, t) =>
            /\ last'.ok /\ last'.call.token_id = Some(t)
            /\ \/ last'.call.op \in Transfers
               \/ /\ last'.call.op \in {"nft_approve", "nft_revoke", "nft_revoke_all"}
                  /\ last'.call.predecessor = Some(Owner(t))
\* C16: the approvals of a token change only through its current owner or a
\* successful transfer: nft_approve, nft_revoke and nft_revoke_all called by
\* any other account fail with NotOwner and change nothing; called by the
\* owner, nft_revoke removes exactly the entry of the account named and
\* nft_revoke_all removes every entry.
C16_ApprovalsByOwnerOnly == [](C16_Calls) /\ [][C16_Step]_vars
C16_Witness ==
    /\ last.ok /\ last.call.op = "nft_revoke"
    /\ \E t \in Minted :
          /\ last.call.token_id = Some(t)
          /\ Cardinality(DOMAIN Approvals(tokens, t)) = 1
          /\ Unwrap(last.call.account_id) \notin DOMAIN Approvals(tokens, t)
          /\ next_approval_id(tokens, t) = MaxApprovals + 2

\* no redeem_nft succeeds unless the token exists, the caller is its owner
\* and its tag is redeemed:false
C17_Calls ==
    \A t \in LedgerEnv.token_ids, caller_id \in LedgerEnv.accounts, deposit \in LedgerEnv.deposits :
        redeem_nft(Self, caller_id, t, deposit).ok =>
            /\ t \in Minted
            /\ caller_id = Owner(t)
            /\ Extra(t) = REDEEMED_FALSE
\* a step of a successful redeem_nft: called by the owner on an unredeemed
\* token, it writes the tag of that token and nothing else, and returns the
\* token with the tag redeemed:true
C17_Step ==
    (last'.ok /\ last'.call.op = "redeem_nft") =>
        LET t == Unwrap(last'.call.token_id)
        IN  /\ t \in Minted
            /\ last'.call.predecessor = Some(Owner(t))
            /\ Extra(t) = REDEEMED_FALSE
            /\ tokens' = [tokens EXCEPT !.token_metadata_by_id[t] = REDEEMED_TRUE]
            /\ minted_tokens' = minted_tokens
            /\ perpetual_royalties' = perpetual_royalties
            /\ \A other \in Minted \ {t} : nft_token(tokens', other) = nft_token(tokens, other)
            /\ last'.token = nft_token(tokens', t)
            /\ last'.token = Some(Token(t, Owner(t), Some(REDEEMED_TRUE), Approvals(tokens, t)))
\* C17: redeem_nft succeeds only when the token exists, the caller is its
\* current owner and its tag is redeemed:false (an approved account or an
\* earlier owner cannot redeem); a successful redeem changes the tag of that
\* token and nothing else (not its owner, approvals or approval-id counter,
\* not minted_tokens, the royalty table or another token), and returns the
\* token with the tag redeemed:true.
C17_RedeemChangesTheTagOnly == [](C17_Calls) /\ [][C17_Step]_vars
C17_Witness ==
    /\ last.ok /\ last.call.op = "redeem_nft"
    /\ minted_tokens = MaxCopies
    /\ \E t \in Minted :
          /\ last.call.token_id = Some(t)
          /\ Approvals(tokens, t) # EmptyMap
          /\ \E other \in Minted \ {t} :
                /\ Extra(other) = REDEEMED_FALSE
                /\ Owner(other) # Owner(t)
                /\ Approvals(tokens, other) # EmptyMap

\* after a successful transfer the receiver owns the token, and redeem_nft
\* of it succeeds for the new owner alone, and only if the tag is
\* redeemed:false
C18_AfterTransfer ==
    (last.ok /\ last.call.op \in Transfers) =>
        LET t == Unwrap(last.call.token_id)
        IN  /\ Some(Owner(t)) = last.call.receiver_id
            /\ \A caller_id \in LedgerEnv.accounts :
                  redeem_nft(Self, caller_id, t, 1).ok
                      <=> (caller_id = Owner(t) /\ Extra(t) = REDEEMED_FALSE)
\* a step of a successful transfer writes the owner of the token and takes
\* out its approvals, and writes nothing else
C18_Step ==
    (last'.ok /\ last'.call.op \in Transfers) =>
        LET t == Unwrap(last'.call.token_id)
        IN  /\ t \in Minted
            /\ tokens' = [tokens EXCEPT
                             !.owner_by_id = Put(@, t, Unwrap(last'.call.receiver_id)),
                             !.approvals_by_id = Remove(@, t)]
            /\ tokens'.token_metadata_by_id[t] = Extra(t)
            /\ Unwrap(nft_token(tokens', t)).token_id = t
            /\ minted_tokens' = minted_tokens
            /\ \A other \in Minted \ {t} : nft_token(tokens', other) = nft_token(tokens, other)
\* C18: a successful nft_transfer or nft_transfer_payout of a token changes
\* the owner and the approvals of that token and nothing else: its id and
\* its redeemed tag stay (a redeemed token stays redeemed under the new
\* owner, an unredeemed one can be redeemed by the new owner and by nobody
\* else), and minted_tokens and every other token stay as they were.
C18_TransferChangesOwnerAndApprovals == [](C18_AfterTransfer) /\ [][C18_Step]_vars
C18_Witness ==
    /\ last.ok /\ last.call.op \in Transfers
    /\ minted_tokens = MaxCopies
    /\ Unwrap(last.prev).approved_account_ids # None
    /\ \E t \in Minted :
          /\ last.call.token_id = Some(t)
          /\ Extra(t) = REDEEMED_TRUE
          /\ \E other \in Minted \ {t} :
                Extra(other) = REDEEMED_FALSE /\ Approvals(tokens, other) # EmptyMap

\* the shares of the royalty table add up to at most 10000, and no payout
\* is returned when those of the beneficiaries other than the owner exceed it
C19_WithinBasisPoints ==
    /\ SumOver(Royalties, DOMAIN Royalties) <= BASIS_POINTS
    /\ Returned => SumOver(Royalties, (DOMAIN Royalties) \ {PaidOwner}) <= BASIS_POINTS
\* a payout is returned although the shares of the others exceed 10000, and
\* it pays the owner alone more than the amount of the sale
C19_PayoutAboveBasisPoints ==
    /\ Returned /\ SumOver(Royalties, (DOMAIN Royalties) \ {PaidOwner}) > BASIS_POINTS
    /\ Amount = 1000 /\ Paid[PaidOwner] > Amount
\* C19: the royalty table is the one given at initialization in every state,
\* no operation changes it, its shares add up to at most 10000 basis points,
\* and a table whose shares add up to more never yields a payout.
C19_RoyaltiesFixedAndBounded ==
    [](C19_WithinBasisPoints) /\ [][perpetual_royalties' = perpetual_royalties]_vars

\* C20: a minted token can always be transferred: in every reachable state,
\* for every minted token (redeemed or not, with or without approvals,
\* transferred before or not) nft_transfer called by its owner for any
\* receiver other than the owner succeeds and makes the receiver the owner,
\* and so does nft_transfer_payout when max_len_payout admits the royalty
\* table.
C20_AlwaysTransferable ==
    \A t \in Minted : \A receiver_id \in LedgerEnv.accounts \ {Owner(t)} :
        /\ \A approval_id \in Options(LedgerEnv.approval_ids) :
              LET r == nft_transfer(Self, Owner(t), receiver_id, t, approval_id, 1)
              IN  r.ok /\ Committed(r).tokens.owner_by_id[t] = receiver_id
        /\ \A approval_id \in LedgerEnv.approval_ids :
              LET r == nft_transfer_payout(Self, Owner(t), receiver_id, t, approval_id,
                                           1000, Cardinality(DOMAIN Royalties), 1)
              IN  r.ok /\ Committed(r).tokens.owner_by_id[t] = receiver_id
C20_Witness ==
    /\ last.ok /\ last.call.op \in Transfers
    /\ minted_tokens = MaxCopies
    /\ \A t \in Minted : Extra(t) = REDEEMED_TRUE
    /\ \E t \in Minted : last.call.token_id # Some(t) /\ Approvals(tokens, t) # EmptyMap
    /\ \E t \in Minted :
          /\ last.call.token_id = Some(t)
          /\ next_approval_id(tokens, t) > 1
          /\ \E receiver_id \in LedgerEnv.accounts \ {Owner(t)} :
                nft_transfer(Self, Owner(t), receiver_id, t, None, 1).ok

\* the payout that the last call returned has no more entries than the
\* max_len_payout the caller gave
C21_PayoutWithinMaxLen ==
    Returned => Cardinality(DOMAIN Paid) <= Unwrap(last.call.max_len_payout)
\* with a royalty table of more entries than max_len_payout, nft_payout of a
\* minted token and nft_transfer_payout called by its owner for another
\* receiver fail with TooManyBeneficiaries
C21_TooManyRejected ==
    \A t \in Minted : \A max_len_payout \in PayoutEnv.max_lens, balance \in PayoutEnv.balances :
        (perpetual_royalties # None /\ Cardinality(DOMAIN Royalties) > max_len_payout) =>
            /\ LET r == nft_payout(Self, t, balance, max_len_payout)
               IN  ~r.ok /\ r.err = "TooManyBeneficiaries" /\ r.payout = None
            /\ \A receiver_id \in PayoutEnv.accounts \ {Owner(t)} :
                  LET r == nft_transfer_payout(Self, Owner(t), receiver_id, t, 0,
                                               balance, max_len_payout, 1)
                  IN  ~r.ok /\ r.err = "TooManyBeneficiaries" /\ r.payout = None
\* a payout is returned for a royalty table of exactly max_len_payout
\* entries that does not hold the owner: it has max_len_payout + 1 entries
C21_PayoutAboveMaxLen ==
    /\ Returned /\ perpetual_royalties # None
    /\ Cardinality(DOMAIN Royalties) = Unwrap(last.call.max_len_payout)
    /\ PaidOwner \notin DOMAIN Royalties
    /\ Cardinality(DOMAIN Paid) = Unwrap(last.call.max_len_payout) + 1
\* C21: max_len_payout is a ceiling on the settlement: every payout that
\* nft_payout or nft_transfer_payout returns has at most max_len_payout
\* entries, the owner's entry counted, and a call with a royalty table of
\* more than max_len_payout entries fails with TooManyBeneficiaries and
\* returns no payout.
C21_MaxLenIsACeiling ==
    C21_PayoutWithinMaxLen /\ C21_TooManyRejected

====
